---- MODULE Spec2Model ----
(***************************************************************************)
(* A model of the GitHub activity pattern analyzer: the pattern analysis   *)
(* of backend/analyzer.py, the insight rules of backend/insights.py, the   *)
(* classifiers of backend/ml_model.py and the /api/analyze route of        *)
(* backend/app.py.                                                         *)
(*                                                                         *)
(* Representation of Python values                                         *)
(*   dict           a function from its keys; {} is <<>>; a dict that is   *)
(*                  iterated (Counter, defaultdict) is the sequence of its *)
(*                  <<key, value>> items in insertion order                *)
(*   None           "None" where the slot otherwise holds a string,        *)
(*                  NoneObj where it otherwise holds a dict, <<>> where it *)
(*                  otherwise holds a tuple                                *)
(*   float          an integer number of hundredths where the code rounds  *)
(*                  to 2 decimals; an exact fraction over a fixed          *)
(*                  denominator elsewhere                                  *)
(*   exception      a record [raised |-> <exception class>]                *)
(***************************************************************************)
EXTENDS Integers, Sequences, FiniteSets, TLC

VARIABLES
    github,        \* what the activity provider returns for the user
    hash_seed,     \* the interpreter's string-hash seed (fixed per process)
    user_data,     \* analyze_activity: the fetched dataset
    patterns,      \* analyze_activity: the PatternReport
    insights,      \* analyze_activity: the InsightReport
    response,      \* analyze_activity: the JSON answer
    prev_insights, \* history: the insights of the previous request
    runs,          \* history: the reports of successive analyze_patterns calls
    arg,           \* the input of a single analyzer or classifier call
    result         \* its output

vars == <<github, hash_seed, user_data, patterns, insights, response,
          prev_insights, runs, arg, result>>

----------------------------------------------------------------------------
(* Bounds of the model *)

MaxEvents == 2
MaxRepos == 2
MaxActiveDays == 1
NumHashSeeds == 2
MaxRuns == 2
MaxTrendEvents == 23
MaxTrendDays == 4
MaxRepoCount == 30
MaxTotalStars == 300
MaxDiversity == 9
MaxTimeEvents == 5
MaxLangRepos == 3

----------------------------------------------------------------------------
(* Python values *)

None == "None"
NoneObj == [none |-> TRUE]
NoneTuple == <<>>
EmptyDict == <<>>
NotRun == [not_run |-> TRUE]

Raise(exc) == [raised |-> exc]
Raised(r) == "raised" \in DOMAIN r

\* dict.get(key, default)
Get(d, k, default) == IF k \in DOMAIN d THEN d[k] ELSE default

Min(a, b) == IF a <= b THEN a ELSE b

\* Counter / defaultdict(int): items in insertion order
CounterKeys(c) == {c[i][1] : i \in 1..Len(c)}

CounterGet(c, k) ==
    IF \E i \in 1..Len(c) : c[i][1] = k
    THEN (CHOOSE i \in 1..Len(c) : c[i][1] = k) \* keys are unique
    ELSE 0

\* c[k] += 1
CounterIncr(c, k) ==
    IF \E i \in 1..Len(c) : c[i][1] = k
    THEN [i \in 1..Len(c) |-> IF c[i][1] = k THEN <<k, c[i][2] + 1>> ELSE c[i]]
    ELSE Append(c, <<k, 1>>)

CounterCount(c, k) ==
    IF CounterGet(c, k) = 0 THEN 0 ELSE c[CounterGet(c, k)][2]

RECURSIVE CounterOf(_)
\* Counter filled by one pass over the keys in ks
CounterOf(ks) ==
    IF ks = <<>> THEN <<>>
    ELSE CounterIncr(CounterOf(SubSeq(ks, 1, Len(ks) - 1)), ks[Len(ks)])

RECURSIVE SumValues(_)
\* sum(d.values())
SumValues(c) ==
    IF c = <<>> THEN 0 ELSE c[1][2] + SumValues(Tail(c))

\* max(items, key=lambda x: x[1]): the first item of maximal value
MaxItem(c) ==
    c[CHOOSE i \in 1..Len(c) :
        /\ \A j \in 1..Len(c) : c[j][2] <= c[i][2]
        /\ \A j \in 1..(i - 1) : c[j][2] < c[i][2]]

RECURSIVE InsertDesc(_, _)
\* x placed after every element whose key is >= its own
InsertDesc(s, x) ==
    IF s = <<>> THEN <<x>>
    ELSE IF s[1].key >= x.key THEN <<s[1]>> \o InsertDesc(Tail(s), x)
    ELSE <<x>> \o s

RECURSIVE SortedDescKeyed(_)
\* the [key, val] records of s in stable descending key order
SortedDescKeyed(s) ==
    IF s = <<>> THEN <<>>
    ELSE InsertDesc(SortedDescKeyed(SubSeq(s, 1, Len(s) - 1)), s[Len(s)])

\* sorted(s, key=..., reverse=True), keys[i] being the key of s[i]
SortedDesc(s, keys) ==
    LET sorted == SortedDescKeyed([i \in 1..Len(s) |-> [key |-> keys[i], val |-> s[i]]])
    IN [i \in 1..Len(s) |-> sorted[i].val]

\* s[:n]
Take(s, n) == SubSeq(s, 1, Min(n, Len(s)))

----------------------------------------------------------------------------
(* datetime.strptime(created_at, '%Y-%m-%dT%H:%M:%SZ')                     *)
(* A created_at string is modelled by its shape and its fields:            *)
(* [shape |-> "iso", year, month, day, hour] reads YYYY-MM-DDTHH:00:00Z;   *)
(* any other shape does not match the format.                              *)

IsLeap(y) == (y % 4 = 0 /\ y % 100 /= 0) \/ y % 400 = 0

DaysInMonth(y, m) ==
    IF m = 2 THEN (IF IsLeap(y) THEN 29 ELSE 28)
    ELSE IF m \in {4, 6, 9, 11} THEN 30 ELSE 31

MonthOffset == <<0, 3, 2, 5, 0, 3, 5, 1, 4, 6, 2, 4>>

DayNames == <<"Sunday", "Monday", "Tuesday", "Wednesday", "Thursday",
              "Friday", "Saturday">>

\* created_at.strftime('%A')
Weekday(y, m, d) ==
    LET yy == IF m < 3 THEN y - 1 ELSE y
    IN DayNames[((yy + yy \div 4 - yy \div 100 + yy \div 400
                   + MonthOffset[m] + d) % 7) + 1]

strptime(s) ==
    IF /\ s.shape = "iso"
       /\ s.year \in 1..9999
       /\ s.month \in 1..12
       /\ s.day \in 1..DaysInMonth(s.year, s.month)
       /\ s.hour \in 0..23
    THEN [hour |-> s.hour, weekday |-> Weekday(s.year, s.month, s.day)]
    ELSE Raise("ValueError")

Stamp(y, m, d, h) == [shape |-> "iso", year |-> y, month |-> m, day |-> d, hour |-> h]

----------------------------------------------------------------------------
(* PatternAnalyzer._analyze_time_patterns *)

\* the values of a Counter, item by item
Counts(c) == [i \in 1..Len(c) |-> c[i][2]]

\* faulty variant: equal counts are ordered by the hour
PeakHoursByHourOnTies(hour_distribution) ==
    LET peak == Take(SortedDesc(hour_distribution,
                    [i \in 1..Len(hour_distribution) |->
                        24 * hour_distribution[i][2] + (23 - hour_distribution[i][1])]), 3)
    IN [i \in 1..Len(peak) |-> [hour |-> peak[i][1], count |-> peak[i][2]]]

PeakHours(hour_distribution) ==
    LET peak == Take(SortedDesc(hour_distribution, Counts(hour_distribution)), 3)
    IN [i \in 1..Len(peak) |-> [hour |-> peak[i][1], count |-> peak[i][2]]]

\* faulty variant: the last item of maximal count
MostActiveDayLastMax(day_distribution) ==
    IF day_distribution /= <<>>
    THEN day_distribution[CHOOSE i \in 1..Len(day_distribution) :
             /\ \A j \in 1..Len(day_distribution) :
                    day_distribution[j][2] <= day_distribution[i][2]
             /\ \A j \in (i + 1)..Len(day_distribution) :
                    day_distribution[j][2] < day_distribution[i][2]][1]
    ELSE None

MostActiveDay(day_distribution) ==
    IF day_distribution /= <<>> THEN MaxItem(day_distribution)[1] ELSE None

\* faulty variant: an event whose created_at does not parse is skipped
TimePatternsSkippingMalformed(events) ==
    LET ok(e) == ~Raised(strptime(e.created_at))
        good == SelectSeq(events, ok)
        parsed == [i \in 1..Len(good) |-> strptime(good[i].created_at)]
        hour_distribution == CounterOf([i \in 1..Len(good) |-> parsed[i].hour])
        day_distribution == CounterOf([i \in 1..Len(good) |-> parsed[i].weekday])
    IN [hour_distribution |-> hour_distribution,
        day_distribution |-> day_distribution,
        peak_hours |-> PeakHours(hour_distribution),
        most_active_day |-> MostActiveDay(day_distribution)]

_analyze_time_patterns(events) ==
    IF \E i \in 1..Len(events) : Raised(strptime(events[i].created_at))
    THEN Raise("ValueError")
    ELSE LET parsed == [i \in 1..Len(events) |-> strptime(events[i].created_at)]
             hour_distribution == CounterOf([i \in 1..Len(events) |-> parsed[i].hour])
             day_distribution == CounterOf([i \in 1..Len(events) |-> parsed[i].weekday])
         IN [hour_distribution |-> hour_distribution,
             day_distribution |-> day_distribution,
             peak_hours |-> PeakHours(hour_distribution),
             most_active_day |-> MostActiveDay(day_distribution)]

----------------------------------------------------------------------------
(* PatternAnalyzer._analyze_activity_patterns *)

\* Counter.most_common(1)[0]: the first item of maximal count
MostCommon(c) == MaxItem(c)

_analyze_activity_patterns(events) ==
    LET event_types == CounterOf([i \in 1..Len(events) |-> events[i].type])
    IN [event_type_distribution |-> event_types,
        most_common_activity |->
            IF event_types /= <<>> THEN MostCommon(event_types) ELSE NoneTuple,
        activity_diversity |-> Len(event_types)]

----------------------------------------------------------------------------
(* PatternAnalyzer._analyze_repository_patterns *)

RECURSIVE SumSeq(_)
SumSeq(s) == IF s = <<>> THEN 0 ELSE s[1] + SumSeq(Tail(s))

\* The order of two updated_at strings of the ISO shape is the order of
\* their zero-padded fields, read left to right.
LexKey(s) == ((s.year * 100 + s.month) * 100 + s.day) * 100 + s.hour

\* faulty variant: sorted(...)[::-1][:5] over the ascending order, which lists
\* repositories of equal stars last one first
MostStarredTiesReversed(repositories) ==
    LET n == Len(repositories)
        reversed == [i \in 1..n |-> repositories[n + 1 - i]]
        top == Take(SortedDesc(reversed, [i \in 1..n |-> reversed[i].stargazers_count]), 5)
    IN [i \in 1..Len(top) |-> [name |-> top[i].name, stars |-> top[i].stargazers_count]]

MostStarred(repositories) ==
    LET top == Take(SortedDesc(repositories,
                   [i \in 1..Len(repositories) |-> repositories[i].stargazers_count]), 5)
    IN [i \in 1..Len(top) |-> [name |-> top[i].name, stars |-> top[i].stargazers_count]]

RecentlyUpdated(repositories) ==
    LET top == Take(SortedDesc(repositories,
                   [i \in 1..Len(repositories) |-> LexKey(repositories[i].updated_at)]), 5)
    IN [i \in 1..Len(top) |-> [name |-> top[i].name, updated |-> top[i].updated_at]]

\* faulty variant: total_stars // len(repositories)
AverageStarsFloorDivision(total_stars, n) == [num |-> total_stars \div n, den |-> 1]

\* total_stars / len(repositories), as the exact fraction
AverageStars(total_stars, n) == [num |-> total_stars, den |-> n]

\* faulty variant: no `if not repositories: return {}`; every field is computed, the
\* average behind its own `if repositories else 0`
RepositoryPatternsUnguarded(repositories) ==
    LET total_stars ==
            SumSeq([i \in 1..Len(repositories) |-> repositories[i].stargazers_count])
    IN [total_repositories |-> Len(repositories),
        total_stars |-> total_stars,
        total_forks |-> SumSeq([i \in 1..Len(repositories) |-> repositories[i].forks_count]),
        average_stars |-> IF repositories /= <<>>
                          THEN AverageStars(total_stars, Len(repositories))
                          ELSE [num |-> 0, den |-> 1],
        most_starred_repos |-> MostStarred(repositories),
        recently_updated |-> RecentlyUpdated(repositories)]

_analyze_repository_patterns(repositories) ==
    IF repositories = <<>> THEN EmptyDict
    ELSE LET total_stars ==
                 SumSeq([i \in 1..Len(repositories) |-> repositories[i].stargazers_count])
             total_forks ==
                 SumSeq([i \in 1..Len(repositories) |-> repositories[i].forks_count])
         IN [total_repositories |-> Len(repositories),
             total_stars |-> total_stars,
             total_forks |-> total_forks,
             average_stars |-> AverageStars(total_stars, Len(repositories)),
             most_starred_repos |-> MostStarred(repositories),
             recently_updated |-> RecentlyUpdated(repositories)]

----------------------------------------------------------------------------
(* PatternAnalyzer._analyze_language_patterns *)

\* `if lang:` for a value that is a string or None
TruthyStr(v) == v /= None /\ v /= ""

\* faulty variant: no `if lang:`
CountedLanguagesUnfiltered(repositories) ==
    [i \in 1..Len(repositories) |-> Get(repositories[i], "language", None)]

\* the languages the loop counts, in repository order
CountedLanguages(repositories) ==
    LET langs == [i \in 1..Len(repositories) |-> Get(repositories[i], "language", None)]
    IN SelectSeq(langs, TruthyStr)

PrimaryLanguage(languages) ==
    IF languages /= <<>> THEN MostCommon(languages)[1] ELSE None

_analyze_language_patterns(repositories) ==
    LET languages == CounterOf(CountedLanguages(repositories))
    IN [language_distribution |-> languages,
        primary_language |-> PrimaryLanguage(languages),
        language_diversity |-> Len(languages)]

----------------------------------------------------------------------------
(* PatternAnalyzer._analyze_collaboration_patterns *)

CollaborationTypes == {"PullRequestEvent", "IssueCommentEvent", "PullRequestReviewEvent"}

\* event.get('repo', {}).get('name'): None has no get
RepoName(event) ==
    LET repo == Get(event, "repo", EmptyDict)
    IN IF repo = NoneObj THEN Raise("AttributeError")
       ELSE [value |-> Get(repo, "name", None)]

IsCollaboration(event) == event.type \in CollaborationTypes

\* the repository names the loop counts, in event order
CollaborationRepos(events) ==
    LET collab == SelectSeq(events, IsCollaboration)
        names == [i \in 1..Len(collab) |-> RepoName(collab[i]).value]
    IN SelectSeq(names, TruthyStr)

_analyze_collaboration_patterns(events) ==
    IF \E i \in 1..Len(events) : IsCollaboration(events[i]) /\ Raised(RepoName(events[i]))
    THEN Raise("AttributeError")
    ELSE LET collaborations == CounterOf(CollaborationRepos(events))
         IN [collaborative_repos |-> collaborations,
             collaboration_frequency |-> SumValues(collaborations),
             most_collaborated_repo |->
                 IF collaborations /= <<>> THEN MaxItem(collaborations)[1] ELSE None]

----------------------------------------------------------------------------
(* PatternAnalyzer._calculate_productivity_metrics *)

\* round(n / d, 2) in hundredths, d > 0: to the nearest hundredth, a tie to
\* the even one (the float n / d is exact at every tie with d < 40)
Round2(n, d) ==
    LET q == (100 * n) \div d
        r == (100 * n) % d
    IN IF 2 * r > d \/ (2 * r = d /\ q % 2 = 1) THEN q + 1 ELSE q

IsPush(event) == event.type = "PushEvent"

\* len(e.get('payload', {}).get('commits', [])): None has no get
CommitCount(event) ==
    LET payload == Get(event, "payload", EmptyDict)
    IN IF payload = NoneObj THEN Raise("AttributeError")
       ELSE [value |-> Len(Get(payload, "commits", <<>>))]

\* faulty variant: the quotient is taken without the `if active_days > 0`
PerDayUnguarded(n, active_days) ==
    IF active_days = 0 THEN Raise("ZeroDivisionError")
    ELSE [value |-> Round2(n, active_days)]

\* round(n / active_days, 2) if active_days > 0 else 0, the form of both
\* daily_average_events and commits_per_day
PerDay(n, active_days) ==
    IF active_days > 0 THEN [value |-> Round2(n, active_days)] ELSE [value |-> 0]

_calculate_productivity_metrics(data) ==
    LET events == data.events
        active_days == Len(data.contributions.active_days)
        daily_average == PerDay(Len(events), active_days)
        push_events == SelectSeq(events, IsPush)
    IN IF events = <<>> THEN EmptyDict
       ELSE IF Raised(daily_average) THEN daily_average
       ELSE IF \E i \in 1..Len(push_events) : Raised(CommitCount(push_events[i]))
       THEN Raise("AttributeError")
       ELSE LET total_commits ==
                    SumSeq([i \in 1..Len(push_events) |-> CommitCount(push_events[i]).value])
                commits_per_day == PerDay(total_commits, active_days)
            IN IF Raised(commits_per_day) THEN commits_per_day
               ELSE [total_events |-> Len(events),
                     active_days |-> active_days,
                     daily_average_events |-> daily_average.value,
                     total_commits |-> total_commits,
                     commits_per_day |-> commits_per_day.value]

----------------------------------------------------------------------------
(* PatternAnalyzer.analyze_patterns: the six sub-reports are computed in   *)
(* the order of the dict display; the first exception leaves the call.     *)

analyze_patterns(data) ==
    LET time == _analyze_time_patterns(data.events)
        collaboration == _analyze_collaboration_patterns(data.events)
        productivity == _calculate_productivity_metrics(data)
    IN IF Raised(time) THEN time
       ELSE IF Raised(collaboration) THEN collaboration
       ELSE IF Raised(productivity) THEN productivity
       ELSE [time_patterns |-> time,
             activity_patterns |-> _analyze_activity_patterns(data.events),
             repository_patterns |-> _analyze_repository_patterns(data.repositories),
             language_patterns |-> _analyze_language_patterns(data.repositories),
             collaboration_patterns |-> collaboration,
             productivity_metrics |-> productivity]

----------------------------------------------------------------------------
(* ActivityPredictor (ml_model.py) *)

\* faulty variant: of the types with the highest count the last one counted
PredictEventTypeLastMaximal(report) ==
    LET activity_patterns == Get(report, "activity_patterns", EmptyDict)
        event_dist == Get(activity_patterns, "event_type_distribution", <<>>)
    IN IF event_dist = <<>> THEN NoneObj
       ELSE LET last == CHOOSE i \in 1..Len(event_dist) :
                            /\ \A j \in 1..Len(event_dist) : event_dist[j][2] <= event_dist[i][2]
                            /\ \A j \in (i + 1)..Len(event_dist) :
                                   event_dist[j][2] < event_dist[i][2]
            IN [event_type |-> event_dist[last][1],
                confidence |-> [num |-> event_dist[last][2], den |-> SumValues(event_dist)]]

_predict_event_type(report) ==
    LET activity_patterns == Get(report, "activity_patterns", EmptyDict)
        event_dist == Get(activity_patterns, "event_type_distribution", <<>>)
    IN IF event_dist = <<>> THEN NoneObj
       ELSE LET most_common == MaxItem(event_dist)
            IN [event_type |-> most_common[1],
                confidence |-> [num |-> most_common[2], den |-> SumValues(event_dist)]]

_predict_active_time(report) ==
    LET time_patterns == Get(report, "time_patterns", EmptyDict)
        peak_hours == Get(time_patterns, "peak_hours", <<>>)
    IN IF peak_hours = <<>> THEN NoneObj
       ELSE [most_likely_hour |-> peak_hours[1].hour,
             peak_hours |-> [i \in 1..Len(peak_hours) |-> peak_hours[i].hour]]

\* faulty variant: the thresholds are inclusive
TrendOfInclusive(daily_avg) ==
    IF daily_avg >= 1000 THEN "highly_active"
    ELSE IF daily_avg >= 500 THEN "moderately_active"
    ELSE IF daily_avg >= 200 THEN "occasionally_active"
    ELSE "low_activity"

\* daily_avg is in hundredths
TrendOf(daily_avg) ==
    IF daily_avg > 1000 THEN "highly_active"
    ELSE IF daily_avg > 500 THEN "moderately_active"
    ELSE IF daily_avg > 200 THEN "occasionally_active"
    ELSE "low_activity"

_get_trend_description(trend) ==
    CASE trend = "highly_active" ->
             "User shows very high engagement with consistent daily activity"
      [] trend = "moderately_active" ->
             "User maintains regular activity with good consistency"
      [] trend = "occasionally_active" ->
             "User contributes periodically with moderate engagement"
      [] trend = "low_activity" ->
             "User shows minimal activity, possibly inactive or new account"
      [] OTHER -> "Unknown activity pattern"

_analyze_productivity_trend(report) ==
    LET metrics == Get(report, "productivity_metrics", EmptyDict)
        daily_avg == Get(metrics, "daily_average_events", 0)
        trend == TrendOf(daily_avg)
    IN [trend |-> trend,
        daily_average |-> daily_avg,
        description |-> _get_trend_description(trend)]

predict_next_activity(report) ==
    [likely_next_event_type |-> _predict_event_type(report),
     likely_active_time |-> _predict_active_time(report),
     productivity_trend |-> _analyze_productivity_trend(report)]

----------------------------------------------------------------------------
(* DeveloperProfiler (ml_model.py) *)

\* min(repo_count / 10, 3) + min(total_stars / 100, 3) + min(diversity / 3, 2)
\* in three-hundredths of a point (the float sum decides every level as the
\* exact sum does for repo_count <= 40, total_stars <= 400, diversity <= 11)
\* faulty variant: // for /
ExpertiseScoreFloorDivision(repo_count, total_stars, diversity) ==
    300 * (Min(repo_count \div 10, 3) + Min(total_stars \div 100, 3) + Min(diversity \div 3, 2))

ExpertiseScore(repo_count, total_stars, diversity) ==
    Min(30 * repo_count, 900) + Min(3 * total_stars, 900) + Min(100 * diversity, 600)

ExpertiseLevel(score) ==
    IF score >= 1800 THEN "expert"
    ELSE IF score >= 1200 THEN "intermediate"
    ELSE IF score >= 600 THEN "beginner"
    ELSE "novice"

_determine_expertise_level(report) ==
    LET repo_count == Get(Get(report, "repository_patterns", EmptyDict), "total_repositories", 0)
        total_stars == Get(Get(report, "repository_patterns", EmptyDict), "total_stars", 0)
        diversity == Get(Get(report, "language_patterns", EmptyDict), "language_diversity", 0)
    IN ExpertiseLevel(ExpertiseScore(repo_count, total_stars, diversity))

_determine_specialization(lang_patterns) ==
    LET primary_lang == Get(lang_patterns, "primary_language", None)
    IN CASE primary_lang = "Python" -> "Data Science/Backend Development"
         [] primary_lang = "JavaScript" -> "Web Development"
         [] primary_lang = "TypeScript" -> "Modern Web Development"
         [] primary_lang = "Java" -> "Enterprise/Android Development"
         [] primary_lang = "Go" -> "Systems/Backend Development"
         [] primary_lang = "Rust" -> "Systems Programming"
         [] primary_lang = "C++" -> "Systems/Game Development"
         [] primary_lang = "Ruby" -> "Web Development"
         [] primary_lang = "PHP" -> "Web Development"
         [] OTHER -> "General Development"

_determine_collaboration_style(collab_patterns) ==
    LET collab_freq == Get(collab_patterns, "collaboration_frequency", 0)
    IN IF collab_freq > 50 THEN "highly_collaborative"
       ELSE IF collab_freq > 20 THEN "team_player"
       ELSE IF collab_freq > 5 THEN "occasional_collaborator"
       ELSE "solo_developer"

_determine_project_focus(repo_patterns) ==
    LET total_repos == Get(repo_patterns, "total_repositories", 0)
        avg_stars == Get(repo_patterns, "average_stars", [num |-> 0, den |-> 1])
    IN IF avg_stars.num > 50 * avg_stars.den THEN "quality_focused"
       ELSE IF total_repos > 50 THEN "quantity_focused"
       ELSE "balanced"

_measure_consistency(report) ==
    LET metrics == Get(report, "productivity_metrics", EmptyDict)
        active_days == Get(metrics, "active_days", 0)
        daily_avg == Get(metrics, "daily_average_events", 0)
    IN IF active_days > 60 /\ daily_avg > 300 THEN "very_consistent"
       ELSE IF active_days > 30 /\ daily_avg > 200 THEN "consistent"
       ELSE IF active_days > 15 THEN "moderately_consistent"
       ELSE "sporadic"

create_profile(report, data) ==
    LET lang_patterns == Get(report, "language_patterns", EmptyDict)
        repo_patterns == Get(report, "repository_patterns", EmptyDict)
        collab_patterns == Get(report, "collaboration_patterns", EmptyDict)
    IN [expertise_level |-> _determine_expertise_level(report),
        primary_language |-> Get(lang_patterns, "primary_language", None),
        specialization |-> _determine_specialization(lang_patterns),
        collaboration_style |-> _determine_collaboration_style(collab_patterns),
        project_focus |-> _determine_project_focus(repo_patterns),
        activity_consistency |-> _measure_consistency(report)]

----------------------------------------------------------------------------
(* InsightGenerator (insights.py)                                          *)
(* A remark is the record of its fixed text and the values it prints.      *)

_generate_summary(report) ==
    LET metrics == Get(report, "productivity_metrics", EmptyDict)
        repo_patterns == Get(report, "repository_patterns", EmptyDict)
        lang_patterns == Get(report, "language_patterns", EmptyDict)
    IN [text |-> "Developer has been active for {} days with {} total events. Primary language is {} with {} repositories.",
        active_days |-> Get(metrics, "active_days", 0),
        total_events |-> Get(metrics, "total_events", 0),
        primary_language |-> Get(lang_patterns, "primary_language", "Unknown"),
        total_repositories |-> Get(repo_patterns, "total_repositories", 0)]

_get_time_period(hour) ==
    IF 5 <= hour /\ hour < 12 THEN "morning"
    ELSE IF 12 <= hour /\ hour < 17 THEN "afternoon"
    ELSE IF 17 <= hour /\ hour < 21 THEN "evening"
    ELSE "night"

\* `insights.append(x)` under `if cond:`
AppendIf(seq, cond, x) == IF cond THEN Append(seq, x) ELSE seq

_generate_time_insights(report) ==
    LET time_patterns == Get(report, "time_patterns", EmptyDict)
        peak_hours == Get(time_patterns, "peak_hours", <<>>)
        most_active_day == Get(time_patterns, "most_active_day", None)
        i1 == IF peak_hours /= <<>>
              THEN <<[text |-> "Most active during {} hours (around {}:00)",
                      period |-> _get_time_period(peak_hours[1].hour),
                      hour |-> peak_hours[1].hour]>>
              ELSE <<>>
    IN AppendIf(i1, TruthyStr(most_active_day),
                [text |-> "Most productive on {}s", day |-> most_active_day])

\* push_count / total * 100 if total > 0 else 0, as the exact fraction the
\* remark prints to one decimal
PushPercentage(push_count, total) ==
    IF total > 0 THEN [num |-> 100 * push_count, den |-> total] ELSE [num |-> 0, den |-> 1]

_generate_activity_insights(report) ==
    LET activity_patterns == Get(report, "activity_patterns", EmptyDict)
        event_dist == Get(activity_patterns, "event_type_distribution", <<>>)
        diversity == Get(activity_patterns, "activity_diversity", 0)
        i1 == AppendIf(<<>>, "PushEvent" \in CounterKeys(event_dist),
                  [text |-> "Pushes code frequently ({}% of activity)",
                   percentage |-> PushPercentage(CounterCount(event_dist, "PushEvent"),
                                                 SumValues(event_dist))])
        i2 == AppendIf(i1, "PullRequestEvent" \in CounterKeys(event_dist),
                  [text |-> "Actively participates in code reviews via pull requests"])
        i3 == AppendIf(i2, "IssuesEvent" \in CounterKeys(event_dist),
                  [text |-> "Engages in issue tracking and project management"])
    IN AppendIf(i3, diversity > 5,
           [text |-> "Shows diverse contribution patterns across multiple activity types"])

Trending == {"Rust", "Go", "TypeScript", "Kotlin"}

\* The hash of a str depends on the seed the interpreter drew when it
\* started (PYTHONHASHSEED). HashSlot is the slot of the set's table that a
\* trending language falls in under seed `seed`.
BaseHash(lang) ==
    CASE lang = "Rust" -> 1
      [] lang = "TypeScript" -> 2
      [] lang = "Go" -> 3
      [] lang = "Kotlin" -> 4

HashSlot(lang, seed) == (BaseHash(lang) * ((seed % 4) + 1)) % 5

RECURSIVE SetIteration(_, _)
\* the order in which iterating a set of str yields its members: by slot
SetIteration(S, seed) ==
    IF S = {} THEN <<>>
    ELSE LET first == CHOOSE x \in S : \A y \in S : HashSlot(x, seed) <= HashSlot(y, seed)
         IN <<first>> \o SetIteration(S \ {first}, seed)

\* ', '.join(trending_used)
TrendingUsed(user_langs, seed) == SetIteration(user_langs \cap Trending, seed)

_generate_language_insights(report, seed) ==
    LET lang_patterns == Get(report, "language_patterns", EmptyDict)
        lang_dist == Get(lang_patterns, "language_distribution", <<>>)
        primary == Get(lang_patterns, "primary_language", None)
        diversity == Get(lang_patterns, "language_diversity", 0)
        user_langs == CounterKeys(lang_dist)
        i1 == AppendIf(<<>>, TruthyStr(primary),
                  [text |-> "Primary expertise in {}", language |-> primary])
        i2 == IF diversity > 5
              THEN Append(i1, [text |-> "Polyglot developer with experience in {} languages",
                               diversity |-> diversity])
              ELSE IF diversity > 3
              THEN Append(i1, [text |-> "Works with multiple languages ({} total)",
                               diversity |-> diversity])
              ELSE i1
    IN AppendIf(i2, user_langs \cap Trending /= {},
           [text |-> "Adopts modern languages: {}",
            languages |-> TrendingUsed(user_langs, seed)])

_generate_productivity_insights(report) ==
    LET metrics == Get(report, "productivity_metrics", EmptyDict)
        repo_patterns == Get(report, "repository_patterns", EmptyDict)
        daily_avg == Get(metrics, "daily_average_events", 0)
        commits_per_day == Get(metrics, "commits_per_day", 0)
        total_stars == Get(repo_patterns, "total_stars", 0)
        i1 == IF daily_avg > 1000
              THEN <<[text |-> "Extremely active developer with high daily engagement"]>>
              ELSE IF daily_avg > 500
              THEN <<[text |-> "Maintains consistent daily activity"]>>
              ELSE IF daily_avg > 200
              THEN <<[text |-> "Regular contributor with steady activity"]>>
              ELSE <<>>
        \* the remark prints commits_per_day (hundredths) to one decimal
        i2 == AppendIf(i1, commits_per_day > 500,
                  [text |-> "High commit frequency ({} commits/day)",
                   commits_per_day |-> commits_per_day])
    IN AppendIf(i2, total_stars > 100,
           [text |-> "Creates popular projects ({} total stars)", total_stars |-> total_stars])

ConsistencyRec == "Consider maintaining more consistent activity for better project momentum"
DiversifyRec == "Explore additional programming languages to broaden your skill set"
CollaborationRec == "Increase collaboration through code reviews and pull requests"
DocumentationRec == "Continue documenting your projects to increase visibility and adoption"

\* faulty variant: the three thresholds compared with <=
RecommendationsInclusive(report) ==
    LET metrics == Get(report, "productivity_metrics", EmptyDict)
        lang_patterns == Get(report, "language_patterns", EmptyDict)
        collab_patterns == Get(report, "collaboration_patterns", EmptyDict)
        r1 == AppendIf(<<>>, Get(metrics, "active_days", 0) <= 30, ConsistencyRec)
        r2 == AppendIf(r1, Get(lang_patterns, "language_diversity", 0) <= 3, DiversifyRec)
        r3 == AppendIf(r2, Get(collab_patterns, "collaboration_frequency", 0) <= 10,
                       CollaborationRec)
    IN Append(r3, DocumentationRec)

_generate_recommendations(report) ==
    LET metrics == Get(report, "productivity_metrics", EmptyDict)
        lang_patterns == Get(report, "language_patterns", EmptyDict)
        collab_patterns == Get(report, "collaboration_patterns", EmptyDict)
        active_days == Get(metrics, "active_days", 0)
        diversity == Get(lang_patterns, "language_diversity", 0)
        collab_freq == Get(collab_patterns, "collaboration_frequency", 0)
        r1 == AppendIf(<<>>, active_days < 30, ConsistencyRec)
        r2 == AppendIf(r1, diversity < 3, DiversifyRec)
        r3 == AppendIf(r2, collab_freq < 10, CollaborationRec)
    IN Append(r3, DocumentationRec)

\* `if user_data:` for a value that is a dict or None
TruthyDict(v) == v /= NoneObj /\ v /= EmptyDict

\* generate_insights(patterns, user_data=None), run by an interpreter whose
\* string-hash seed is `seed`
generate_insights(report, data, seed) ==
    LET base == [summary |-> _generate_summary(report),
                 time_insights |-> _generate_time_insights(report),
                 activity_insights |-> _generate_activity_insights(report),
                 language_insights |-> _generate_language_insights(report, seed),
                 productivity_insights |-> _generate_productivity_insights(report),
                 recommendations |-> _generate_recommendations(report)]
    IN IF TruthyDict(data)
       THEN [k \in DOMAIN base \cup {"predictions", "developer_profile"} |->
                IF k = "predictions" THEN predict_next_activity(report)
                ELSE IF k = "developer_profile" THEN create_profile(report, data)
                ELSE base[k]]
       ELSE base

----------------------------------------------------------------------------
(* The datasets of the model *)

\* every sequence over S of length at most n
SeqsUpTo(S, n) == UNION {[1..k -> S] : k \in 0..n}

Tue14 == Stamp(2024, 1, 2, 14)
Wed09 == Stamp(2024, 1, 3, 9)
Malformed == [shape |-> "2024-01-02 14:00", year |-> 2024, month |-> 1, day |-> 2, hour |-> 14]

EventPool ==
    { [type |-> "PushEvent", created_at |-> Tue14, repo |-> [name |-> "octo/alpha"],
       payload |-> [commits |-> <<[sha |-> "c1"], [sha |-> "c2"]>>]],
      [type |-> "PullRequestEvent", created_at |-> Wed09, repo |-> [name |-> "octo/beta"],
       payload |-> EmptyDict],
      [type |-> "IssueCommentEvent", created_at |-> Tue14],
      [type |-> "PullRequestEvent", created_at |-> Tue14, repo |-> NoneObj,
       payload |-> EmptyDict],
      [type |-> "PushEvent", created_at |-> Wed09, payload |-> NoneObj],
      [type |-> "IssuesEvent", created_at |-> Malformed, repo |-> [name |-> "octo/alpha"],
       payload |-> EmptyDict] }

RepoPool ==
    { [name |-> "alpha", stargazers_count |-> 120, forks_count |-> 3,
       language |-> "Go", updated_at |-> Wed09],
      [name |-> "beta", stargazers_count |-> 5, forks_count |-> 0,
       language |-> "Rust", updated_at |-> Tue14],
      [name |-> "gamma", stargazers_count |-> 5, forks_count |-> 1,
       language |-> None, updated_at |-> Tue14] }

\* contributions['active_days']: k dates, latest first
ActiveDays(k) == [i \in 1..k |-> [year |-> 2024, month |-> 1, day |-> k + 1 - i]]

Datasets ==
    { [events |-> e, repositories |-> r, contributions |-> [active_days |-> ActiveDays(k)]] :
        e \in SeqsUpTo(EventPool, MaxEvents),
        r \in SeqsUpTo(RepoPool, MaxRepos),
        k \in 0..MaxActiveDays }

HashSeeds == 0..(NumHashSeeds - 1)

----------------------------------------------------------------------------
(* app.py: the /api/analyze route *)

\* jsonify(...) of the success branch
SuccessResponse(data, report, ins) ==
    [status |-> 200,
     body |-> [success |-> TRUE, data |-> data, patterns |-> report, insights |-> ins]]

\* jsonify({'error': ...}), code
ErrorResponse(message, code) == [status |-> code, body |-> [error |-> message]]

\* the handler ends at `if not username`
UsernameMissing ==
    /\ response' = ErrorResponse("Username is required", 400)
    /\ user_data' = NotRun
    /\ patterns' = NotRun
    /\ insights' = NotRun

\* fetch_user_activity raises (raise_for_status, a timestamp of the second
\* event fetch that does not parse)
FetchFails ==
    /\ response' = ErrorResponse("fetch", 500)
    /\ user_data' = NotRun
    /\ patterns' = NotRun
    /\ insights' = NotRun

\* faulty variant: the route hands the fetched dataset to generate_insights
AnalyzeFetchedWithUserData ==
    LET report == analyze_patterns(github)
        ins == generate_insights(report, github, hash_seed)
    IN /\ user_data' = github
       /\ patterns' = IF Raised(report) THEN NotRun ELSE report
       /\ insights' = IF Raised(report) THEN NotRun ELSE ins
       /\ response' = IF Raised(report)
                      THEN ErrorResponse(report.raised, 500)
                      ELSE SuccessResponse(github, report, ins)

\* the handler from analyzer.analyze_patterns(user_data) on
AnalyzeFetched ==
    LET report == analyze_patterns(github)
        ins == generate_insights(report, NoneObj, hash_seed)
    IN /\ user_data' = github
       /\ patterns' = IF Raised(report) THEN NotRun ELSE report
       /\ insights' = IF Raised(report) THEN NotRun ELSE ins
       /\ response' = IF Raised(report)
                      THEN ErrorResponse(report.raised, 500)
                      ELSE SuccessResponse(github, report, ins)

\* one POST /api/analyze
analyze_activity ==
    /\ \/ UsernameMissing
       \/ FetchFails
       \/ AnalyzeFetched
    /\ UNCHANGED <<github, hash_seed, prev_insights, runs, arg, result>>

\* run.py: the server is started again; the interpreter draws a new seed
Restart ==
    /\ hash_seed' \in HashSeeds
    /\ user_data' = NotRun
    /\ patterns' = NotRun
    /\ insights' = NotRun
    /\ response' = NotRun
    /\ UNCHANGED <<github, prev_insights, runs, arg, result>>

Init ==
    /\ github \in Datasets
    /\ hash_seed \in HashSeeds
    /\ user_data = NotRun
    /\ patterns = NotRun
    /\ insights = NotRun
    /\ response = NotRun
    /\ prev_insights = NotRun
    /\ runs = <<>>
    /\ arg = NotRun
    /\ result = NotRun

Next == analyze_activity \/ Restart

Spec == Init /\ [][Next]_vars

----------------------------------------------------------------------------
(* Claims checked under Spec *)

HasMalformed(events) == \E i \in 1..Len(events) : Raised(strptime(events[i].created_at))

EmptyDataset == [events |-> <<>>, repositories |-> <<>>,
                 contributions |-> [active_days |-> <<>>]]

\* the empty form of each sub-report (spec 4.1 to 4.6)
EmptyReport ==
    [time_patterns |-> [hour_distribution |-> <<>>, day_distribution |-> <<>>,
                        peak_hours |-> <<>>, most_active_day |-> None],
     activity_patterns |-> [event_type_distribution |-> <<>>,
                            most_common_activity |-> NoneTuple,
                            activity_diversity |-> 0],
     repository_patterns |-> EmptyDict,
     language_patterns |-> [language_distribution |-> <<>>, primary_language |-> None,
                            language_diversity |-> 0],
     collaboration_patterns |-> [collaborative_repos |-> <<>>,
                                 collaboration_frequency |-> 0,
                                 most_collaborated_repo |-> None],
     productivity_metrics |-> EmptyDict]

AnalyzedEmpty == user_data = EmptyDataset /\ patterns /= NotRun /\ insights /= NotRun

\* C1 as stated: for an empty event list, an empty repository list and no
\* active days, every sub-report is its empty form, the recommendations hold
\* the unconditional documentation recommendation only, and the summary
\* states 0 days and 0 events.
C1_OnlyUnconditionalRecommendation ==
    AnalyzedEmpty =>
        /\ patterns = EmptyReport
        /\ insights.recommendations = <<DocumentationRec>>
        /\ insights.summary.active_days = 0
        /\ insights.summary.total_events = 0

\* C1 amended: for an empty event list, an empty repository list and no
\* active days, every sub-report is its empty form, the recommendations are
\* the consistency, diversification and collaboration recommendations
\* followed by the documentation recommendation (0 active days < 30,
\* diversity 0 < 3, collaboration frequency 0 < 10), and the summary states
\* 0 days and 0 events.
C1_EmptyDatasetReport ==
    AnalyzedEmpty =>
        /\ patterns = EmptyReport
        /\ insights.recommendations =
               <<ConsistencyRec, DiversifyRec, CollaborationRec, DocumentationRec>>
        /\ insights.summary.active_days = 0
        /\ insights.summary.total_events = 0

C1_Witness ==
    /\ AnalyzedEmpty
    /\ response.status = 200
    /\ response.body.insights.recommendations[4] = DocumentationRec

\* C9: when an event of the analysed dataset has a created_at that does not
\* parse, analyze_patterns raises instead of returning a report, and the
\* route's answer is an error message alone: no success, data, patterns or
\* insights field.
C9_MalformedTimestampIsFatal ==
    (user_data /= NotRun /\ HasMalformed(user_data.events)) =>
        /\ Raised(analyze_patterns(user_data))
        /\ patterns = NotRun
        /\ insights = NotRun
        /\ DOMAIN response.body = {"error"}
        /\ response.status = 500

C9_Witness ==
    /\ user_data /= NotRun
    /\ HasMalformed(user_data.events)
    /\ Len(user_data.events) = 2
    /\ ~HasMalformed(<<user_data.events[1]>>)
    /\ response.body = [error |-> "ValueError"]

HasRepoName(event) ==
    /\ "repo" \in DOMAIN event
    /\ event.repo /= NoneObj
    /\ "name" \in DOMAIN event.repo

HasCommits(event) ==
    /\ "payload" \in DOMAIN event
    /\ event.payload /= NoneObj
    /\ "commits" \in DOMAIN event.payload

\* C10 as stated: when every timestamp parses, analyze_patterns completes
\* whatever optional field is missing (repo or payload absent or holding no
\* value, language null), and the records without the field are left out of
\* the collaboration, commit and language counts.
C10_MissingFieldsNeverRaise ==
    (user_data /= NotRun /\ ~HasMalformed(user_data.events)) =>
        /\ patterns /= NotRun
        /\ response.status = 200
        /\ patterns.collaboration_patterns.collaboration_frequency =
               Cardinality({i \in 1..Len(user_data.events) :
                   IsCollaboration(user_data.events[i]) /\ HasRepoName(user_data.events[i])})
        /\ SumValues(patterns.language_patterns.language_distribution) =
               Cardinality({i \in 1..Len(user_data.repositories) :
                   user_data.repositories[i].language /= None})
        /\ (user_data.events /= <<>> =>
               patterns.productivity_metrics.total_commits =
                   SumSeq([i \in 1..Len(user_data.events) |->
                       IF IsPush(user_data.events[i]) /\ HasCommits(user_data.events[i])
                       THEN Len(user_data.events[i].payload.commits) ELSE 0]))

----------------------------------------------------------------------------
(* SpecRepeat: analyze_patterns called again and again on one dataset      *)
(* object. github keeps the dataset as it was handed over, arg is the      *)
(* object the calls receive.                                               *)

\* faulty variant: repositories.sort(...) for sorted(repositories, ...)
ArgAfterInPlaceSort(data) ==
    [data EXCEPT !.repositories =
        SortedDesc(@, [i \in 1..Len(@) |-> @[i].stargazers_count])]

\* the argument after analyze_patterns returns or raises: no statement of
\* the analyzer assigns into user_data, its events or its repositories
\* (sorted() builds new lists, the counters are local)
ArgAfterAnalysis(data) == data

InitRepeat ==
    /\ github \in Datasets
    /\ arg = github
    /\ runs = <<>>
    /\ hash_seed = 0
    /\ user_data = NotRun
    /\ patterns = NotRun
    /\ insights = NotRun
    /\ response = NotRun
    /\ prev_insights = NotRun
    /\ result = NotRun

CallAnalyzePatterns ==
    /\ Len(runs) < MaxRuns
    /\ runs' = Append(runs, analyze_patterns(arg))
    /\ arg' = ArgAfterAnalysis(arg)
    /\ UNCHANGED <<github, hash_seed, user_data, patterns, insights, response,
                   prev_insights, result>>

NextRepeat == CallAnalyzePatterns

SpecRepeat == InitRepeat /\ [][NextRepeat]_vars

----------------------------------------------------------------------------
(* SpecInsights: generate_insights evaluated on one PatternReport, by the  *)
(* interpreter that is running; a restart draws a new string-hash seed.    *)

Reports == {analyze_patterns(d) : d \in Datasets} \ {Raise("ValueError"), Raise("AttributeError")}

InitInsights ==
    /\ arg \in Reports
    /\ hash_seed \in HashSeeds
    /\ insights = NotRun
    /\ prev_insights = NotRun
    /\ github = NotRun
    /\ user_data = NotRun
    /\ patterns = NotRun
    /\ response = NotRun
    /\ runs = <<>>
    /\ result = NotRun

CallGenerateInsights ==
    /\ insights' = generate_insights(arg, NoneObj, hash_seed)
    /\ prev_insights' = insights
    /\ UNCHANGED <<github, hash_seed, user_data, patterns, response, runs, arg, result>>

RestartInterpreter ==
    /\ hash_seed' \in HashSeeds
    /\ UNCHANGED <<github, user_data, patterns, insights, response, prev_insights,
                   runs, arg, result>>

NextInsights == CallGenerateInsights \/ RestartInterpreter

SpecInsights == InitInsights /\ [][NextInsights]_vars

\* C3 as stated: two evaluations of generate_insights on the same report
\* give the same strings in the same order in every category, the
\* trending-language remark included.
C3_InsightsDeterministic ==
    (insights /= NotRun /\ prev_insights /= NotRun) => insights = prev_insights

----------------------------------------------------------------------------
(* SpecTrend: the trend classifier on the productivity metrics of a        *)
(* dataset of n events over k active days.                                 *)

PlainEvent == [type |-> "WatchEvent", created_at |-> Tue14]

TrendInputs ==
    { [productivity_metrics |->
          _calculate_productivity_metrics(
              [events |-> [i \in 1..n |-> PlainEvent],
               contributions |-> [active_days |-> ActiveDays(k)]])] :
        n \in 0..MaxTrendEvents, k \in 0..MaxTrendDays }

InitTrend ==
    /\ arg \in TrendInputs
    /\ result = NotRun
    /\ github = NotRun
    /\ hash_seed = 0
    /\ user_data = NotRun
    /\ patterns = NotRun
    /\ insights = NotRun
    /\ response = NotRun
    /\ prev_insights = NotRun
    /\ runs = <<>>

CallAnalyzeProductivityTrend ==
    /\ result = NotRun
    /\ result' = _analyze_productivity_trend(arg)
    /\ UNCHANGED <<github, hash_seed, user_data, patterns, insights, response,
                   prev_insights, runs, arg>>

NextTrend == CallAnalyzeProductivityTrend

SpecTrend == InitTrend /\ [][NextTrend]_vars

\* the daily_average_events of the classified report, in hundredths
DailyAverage == Get(arg.productivity_metrics, "daily_average_events", 0)

\* C4: the trend is highly_active exactly when d > 10, moderately_active
\* exactly when 5 < d <= 10, occasionally_active exactly when 2 < d <= 5 and
\* low_activity exactly when d <= 2 (so d = 10, 5, 2 give moderately_active,
\* occasionally_active, low_activity); a report without productivity
\* metrics gives low_activity.
C4_TrendThresholds ==
    result /= NotRun =>
        /\ result.trend \in {"highly_active", "moderately_active",
                             "occasionally_active", "low_activity"}
        /\ (result.trend = "highly_active") <=> (DailyAverage > 1000)
        /\ (result.trend = "moderately_active") <=> (500 < DailyAverage /\ DailyAverage <= 1000)
        /\ (result.trend = "occasionally_active") <=> (200 < DailyAverage /\ DailyAverage <= 500)
        /\ (result.trend = "low_activity") <=> (DailyAverage <= 200)
        /\ (arg.productivity_metrics = EmptyDict => result.trend = "low_activity")
        /\ result.daily_average = DailyAverage

C4_Witness ==
    /\ result /= NotRun
    /\ arg.productivity_metrics /= EmptyDict
    /\ arg.productivity_metrics.total_events = 20
    /\ arg.productivity_metrics.active_days = 2
    /\ DailyAverage = 1000
    /\ result.trend = "moderately_active"

----------------------------------------------------------------------------
(* SpecExpertise: the expertise level of a report with repo_count          *)
(* repositories, total_stars stars and language_diversity languages.       *)

ExpertiseInputs ==
    { [repository_patterns |->
           IF rc = 0 THEN EmptyDict ELSE [total_repositories |-> rc, total_stars |-> ts],
       language_patterns |-> [language_diversity |-> dv]] :
        rc \in 0..MaxRepoCount, ts \in 0..MaxTotalStars, dv \in 0..MaxDiversity }

InitExpertise ==
    /\ arg \in {r \in ExpertiseInputs :
                   /\ r.language_patterns.language_diversity
                          <= Get(r.repository_patterns, "total_repositories", 0)
                   /\ r.repository_patterns = EmptyDict =>
                          r.language_patterns.language_diversity = 0}
    /\ result = NotRun
    /\ github = NotRun
    /\ hash_seed = 0
    /\ user_data = NotRun
    /\ patterns = NotRun
    /\ insights = NotRun
    /\ response = NotRun
    /\ prev_insights = NotRun
    /\ runs = <<>>

CallDetermineExpertiseLevel ==
    /\ result = NotRun
    /\ result' = [level |-> _determine_expertise_level(arg)]
    /\ UNCHANGED <<github, hash_seed, user_data, patterns, insights, response,
                   prev_insights, runs, arg>>

NextExpertise == CallDetermineExpertiseLevel

SpecExpertise == InitExpertise /\ [][NextExpertise]_vars

RepoCount == Get(arg.repository_patterns, "total_repositories", 0)
TotalStars == Get(arg.repository_patterns, "total_stars", 0)
Diversity == arg.language_patterns.language_diversity

\* 300 * (min(rc/10, 3) + min(ts/100, 3) + min(dv/3, 2)), each term scaled
\* before it is capped
Score300 ==
    (IF RepoCount >= 30 THEN 900 ELSE 30 * RepoCount)
    + (IF TotalStars >= 300 THEN 900 ELSE 3 * TotalStars)
    + (IF Diversity >= 6 THEN 600 ELSE 100 * Diversity)

\* C5: the score the level is decided from is the capped sum, it lies in
\* [0, 8], and the level is expert for score >= 6, intermediate for
\* 4 <= score < 6, beginner for 2 <= score < 4 and novice below 2;
\* (30, 300, 9) is expert and (0, 0, 0) is novice.
C5_ExpertiseScoreAndLevel ==
    result /= NotRun =>
        /\ ExpertiseScore(RepoCount, TotalStars, Diversity) = Score300
        /\ 0 <= Score300 /\ Score300 <= 8 * 300
        /\ (result.level = "expert") <=> (Score300 >= 6 * 300)
        /\ (result.level = "intermediate") <=> (4 * 300 <= Score300 /\ Score300 < 6 * 300)
        /\ (result.level = "beginner") <=> (2 * 300 <= Score300 /\ Score300 < 4 * 300)
        /\ (result.level = "novice") <=> (Score300 < 2 * 300)
        /\ (RepoCount = 30 /\ TotalStars = 300 /\ Diversity = 9 => result.level = "expert")
        /\ (RepoCount = 0 /\ TotalStars = 0 /\ Diversity = 0 => result.level = "novice")

C5_Witness ==
    /\ result /= NotRun
    /\ RepoCount = 30 /\ TotalStars = 300 /\ Diversity = 9
    /\ Score300 = 2400
    /\ result.level = "expert"

----------------------------------------------------------------------------
(* SpecTime: _analyze_time_patterns on a sequence of events whose          *)
(* timestamps parse (four hours of day, three weekdays).                   *)

TimeStamps == { Tue14, Wed09, Stamp(2024, 1, 2, 9), Stamp(2024, 1, 3, 20),
                Stamp(2024, 1, 1, 3), Stamp(2024, 1, 8, 14) }

TimeEvents == {[type |-> "PushEvent", created_at |-> t] : t \in TimeStamps}

InitTime ==
    /\ arg \in SeqsUpTo(TimeEvents, MaxTimeEvents)
    /\ result = NotRun
    /\ github = NotRun
    /\ hash_seed = 0
    /\ user_data = NotRun
    /\ patterns = NotRun
    /\ insights = NotRun
    /\ response = NotRun
    /\ prev_insights = NotRun
    /\ runs = <<>>

CallAnalyzeTimePatterns ==
    /\ result = NotRun
    /\ result' = _analyze_time_patterns(arg)
    /\ UNCHANGED <<github, hash_seed, user_data, patterns, insights, response,
                   prev_insights, runs, arg>>

NextTime == CallAnalyzeTimePatterns

SpecTime == InitTime /\ [][NextTime]_vars

\* the hour of day and the weekday of the i-th event, read off its fields
HourAt(i) == arg[i].created_at.hour
DayAt(i) == Weekday(arg[i].created_at.year, arg[i].created_at.month, arg[i].created_at.day)

HoursSeen == {HourAt(i) : i \in 1..Len(arg)}
DaysSeen == {DayAt(i) : i \in 1..Len(arg)}
HourCount(h) == Cardinality({i \in 1..Len(arg) : HourAt(i) = h})
DayCount(d) == Cardinality({i \in 1..Len(arg) : DayAt(i) = d})
\* the position of the first event at hour h, on weekday d
HourFirstSeen(h) == CHOOSE i \in 1..Len(arg) :
                        HourAt(i) = h /\ \A j \in 1..(i - 1) : HourAt(j) /= h
DayFirstSeen(d) == CHOOSE i \in 1..Len(arg) :
                       DayAt(i) = d /\ \A j \in 1..(i - 1) : DayAt(j) /= d

\* C6: peak_hours has min(3, distinct hours) entries, each an hour of the
\* sequence with its exact count, no hour twice, in non-increasing count
\* order, equal counts in first-seen order; no hour left out has a count
\* above the last listed one; one event at hour 14 gives [{14, 1}].
C6_PeakHours ==
    result /= NotRun =>
        LET peak == result.peak_hours
        IN /\ Len(peak) = Min(3, Cardinality(HoursSeen))
           /\ \A i \in 1..Len(peak) :
                  /\ peak[i].hour \in HoursSeen
                  /\ peak[i].count = HourCount(peak[i].hour)
           /\ \A i, j \in 1..Len(peak) :
                  i < j =>
                      /\ peak[i].hour /= peak[j].hour
                      /\ peak[i].count >= peak[j].count
                      /\ (peak[i].count = peak[j].count =>
                             HourFirstSeen(peak[i].hour) < HourFirstSeen(peak[j].hour))
           /\ \A h \in HoursSeen :
                  (\A i \in 1..Len(peak) : peak[i].hour /= h) =>
                      HourCount(h) <= peak[Len(peak)].count
           /\ (Len(arg) = 1 /\ HourAt(1) = 14 => peak = <<[hour |-> 14, count |-> 1]>>)

\* four hours seen, the first seen being numerically the largest of a tie
C6_Witness ==
    /\ result /= NotRun
    /\ Cardinality(HoursSeen) = 4
    /\ Len(result.peak_hours) = 3
    /\ result.peak_hours[1].count = 2
    /\ result.peak_hours[2].count = 1
    /\ result.peak_hours[2].hour > result.peak_hours[3].hour
    /\ \E h \in HoursSeen : h < result.peak_hours[3].hour

\* C7: for a non-empty sequence most_active_day is a weekday of maximal
\* count, and among the weekdays of maximal count the one whose first event
\* comes first; for the empty sequence it is None, peak_hours is [] and both
\* histograms are empty.
C7_MostActiveDay ==
    result /= NotRun =>
        /\ (arg /= <<>> =>
               /\ result.most_active_day \in DaysSeen
               /\ \A d \in DaysSeen :
                      /\ DayCount(d) <= DayCount(result.most_active_day)
                      /\ (DayCount(d) = DayCount(result.most_active_day) =>
                             DayFirstSeen(result.most_active_day) <= DayFirstSeen(d)))
        /\ (arg = <<>> =>
               /\ result.most_active_day = None
               /\ result.peak_hours = <<>>
               /\ result.hour_distribution = <<>>
               /\ result.day_distribution = <<>>)
        /\ (Len(arg) = 1 /\ arg[1].created_at = Tue14 => result.most_active_day = "Tuesday")

\* three weekdays, two of them tied for the maximum
C7_Witness ==
    /\ result /= NotRun
    /\ Cardinality(DaysSeen) = 3
    /\ result.most_active_day = "Wednesday"
    /\ DayCount("Tuesday") = DayCount("Wednesday")
    /\ DayCount("Monday") < DayCount("Wednesday")
    /\ DayAt(1) = "Monday"

----------------------------------------------------------------------------
(* SpecLanguage: _analyze_language_patterns on a sequence of repositories  *)
(* whose language is a name, null, or not given.                           *)

LanguageRepos ==
    { [name |-> "r", stargazers_count |-> 0, forks_count |-> 0,
       language |-> l, updated_at |-> Tue14] : l \in {"Go", "Rust", "Python", None} }
    \cup { [name |-> "r", stargazers_count |-> 0, forks_count |-> 0, updated_at |-> Tue14] }

InitLanguage ==
    /\ arg \in SeqsUpTo(LanguageRepos, MaxLangRepos)
    /\ result = NotRun
    /\ github = NotRun
    /\ hash_seed = 0
    /\ user_data = NotRun
    /\ patterns = NotRun
    /\ insights = NotRun
    /\ response = NotRun
    /\ prev_insights = NotRun
    /\ runs = <<>>

CallAnalyzeLanguagePatterns ==
    /\ result = NotRun
    /\ result' = _analyze_language_patterns(arg)
    /\ UNCHANGED <<github, hash_seed, user_data, patterns, insights, response,
                   prev_insights, runs, arg>>

NextLanguage == CallAnalyzeLanguagePatterns

SpecLanguage == InitLanguage /\ [][NextLanguage]_vars

\* the repositories that have a language, and those whose language is l
WithLanguage == {i \in 1..Len(arg) : "language" \in DOMAIN arg[i] /\ arg[i].language /= None}
LanguagesSeen == {arg[i].language : i \in WithLanguage}
LanguageCount(l) == Cardinality({i \in WithLanguage : arg[i].language = l})

\* C8: language_diversity is the number of distinct non-null languages,
\* language_distribution gives each of them once with the number of
\* repositories that have it, primary_language is one of maximal count and
\* None when no repository has a language; [Go, Go, null] gives Go and 1.
C8_LanguagePatterns ==
    result /= NotRun =>
        LET dist == result.language_distribution
        IN /\ result.language_diversity = Cardinality(LanguagesSeen)
           /\ Len(dist) = Cardinality(LanguagesSeen)
           /\ CounterKeys(dist) = LanguagesSeen
           /\ \A i \in 1..Len(dist) : dist[i][2] = LanguageCount(dist[i][1])
           /\ (LanguagesSeen = {} <=> result.primary_language = None)
           /\ (LanguagesSeen /= {} =>
                  /\ result.primary_language \in LanguagesSeen
                  /\ \A l \in LanguagesSeen :
                         LanguageCount(l) <= LanguageCount(result.primary_language))
           /\ (Len(arg) = 3 /\ WithLanguage = {1, 2} /\ LanguagesSeen = {"Go"} =>
                  result.primary_language = "Go" /\ result.language_diversity = 1)

C8_Witness ==
    /\ result /= NotRun
    /\ Len(arg) = 3
    /\ WithLanguage = {1, 2}
    /\ "language" \in DOMAIN arg[3]
    /\ LanguagesSeen = {"Go"}
    /\ result.primary_language = "Go"
    /\ result.language_diversity = 1

----------------------------------------------------------------------------
(* SpecCallers: the two callers of InsightGenerator.generate_insights on   *)
(* one dataset: the /api/analyze route, which passes the report alone, and *)
(* a caller that passes user_data as the second argument (None, an empty   *)
(* dict or the dataset).                                                    *)

\* repositories of the datasets analysed here: none or a single one
CallerDatasets ==
    { [events |-> e, repositories |-> r, contributions |-> [active_days |-> ActiveDays(k)]] :
        e \in SeqsUpTo(EventPool, MaxEvents),
        r \in {<<>>} \cup {<<repo>> : repo \in RepoPool},
        k \in 0..MaxActiveDays }

InitCallers ==
    /\ github \in CallerDatasets
    /\ hash_seed \in HashSeeds
    /\ user_data = NotRun
    /\ patterns = NotRun
    /\ insights = NotRun
    /\ response = NotRun
    /\ prev_insights = NotRun
    /\ runs = <<>>
    /\ arg = NotRun
    /\ result = NotRun

\* insight_gen.generate_insights(analyzer.analyze_patterns(d), user_data):
\* arg records the user_data passed
CallInsightsWithUserData ==
    /\ result = NotRun
    /\ \E data \in {NoneObj, EmptyDict, github} :
          LET report == analyze_patterns(github)
          IN /\ arg' = data
             /\ result' = IF Raised(report) THEN report
                          ELSE generate_insights(report, data, hash_seed)
    /\ UNCHANGED <<github, hash_seed, user_data, patterns, insights, response,
                   prev_insights, runs>>

NextCallers == analyze_activity \/ CallInsightsWithUserData

SpecCallers == InitCallers /\ [][NextCallers]_vars

\* the call returned an InsightReport that has the enhanced categories
HasPredictions == result /= NotRun /\ "predictions" \in DOMAIN result

\* the remarks of the activity insights that print the push percentage
PushRemarks ==
    {i \in 1..Len(insights.activity_insights) :
        "percentage" \in DOMAIN insights.activity_insights[i]}

\* C11: no ratio of the pipeline faults on a zero denominator. Neither
\* caller ever ends in a ZeroDivisionError; with events but no active day
\* daily_average_events and commits_per_day are 0; with no events the
\* predicted event type is None (no confidence is computed); a computed
\* confidence has a total > 0; and the push percentage is 100 * pushes /
\* total with total > 0.
C11_RatiosGuarded ==
    /\ (response /= NotRun /\ response.status = 500)
          => response.body.error /= "ZeroDivisionError"
    /\ Raised(result) => result.raised /= "ZeroDivisionError"
    /\ (patterns /= NotRun /\ user_data.events /= <<>>
           /\ user_data.contributions.active_days = <<>>)
          => /\ patterns.productivity_metrics.daily_average_events = 0
             /\ patterns.productivity_metrics.commits_per_day = 0
    /\ (HasPredictions /\ github.events = <<>>)
          => result.predictions.likely_next_event_type = NoneObj
    /\ (HasPredictions /\ github.events /= <<>>)
          => /\ result.predictions.likely_next_event_type /= NoneObj
             /\ result.predictions.likely_next_event_type.confidence.den = Len(github.events)
    /\ insights /= NotRun
          => \A i \in PushRemarks :
                LET p == insights.activity_insights[i].percentage
                    pushes == Len(SelectSeq(user_data.events, IsPush))
                IN /\ p.den = Len(user_data.events)
                   /\ p.den > 0
                   /\ p.num = 100 * pushes

\* the route analysed a dataset with events and no active day, one of them
\* a push, and the other caller got the predictions of a dataset
C11_Witness ==
    /\ patterns /= NotRun
    /\ user_data.events /= <<>>
    /\ user_data.contributions.active_days = <<>>
    /\ PushRemarks /= {}
    /\ HasPredictions

----------------------------------------------------------------------------
(* SpecRepos: _analyze_repository_patterns on repository lists long enough *)
(* for the [:5] cut to drop entries, with equal star counts and equal      *)
(* updated_at strings among them.                                          *)

MaxStarRepos == 6

Dec31 == Stamp(2023, 12, 31, 23)

\* what the report reads of a repository besides its name
RepoShapes ==
    { [stargazers_count |-> 10, forks_count |-> 1, updated_at |-> Tue14],
      [stargazers_count |-> 20, forks_count |-> 0, updated_at |-> Wed09],
      [stargazers_count |-> 30, forks_count |-> 2, updated_at |-> Tue14],
      [stargazers_count |-> 20, forks_count |-> 0, updated_at |-> Dec31] }

\* repository names are unique per account
RepoNames == <<"r1", "r2", "r3", "r4", "r5", "r6", "r7", "r8">>

NamedRepos(shapes) ==
    [i \in 1..Len(shapes) |->
        [name |-> RepoNames[i],
         stargazers_count |-> shapes[i].stargazers_count,
         forks_count |-> shapes[i].forks_count,
         updated_at |-> shapes[i].updated_at]]

RepoLists == {NamedRepos(sh) : sh \in SeqsUpTo(RepoShapes, Min(MaxStarRepos, Len(RepoNames)))}

InitRepos ==
    /\ arg \in RepoLists
    /\ result = NotRun
    /\ github = NotRun
    /\ hash_seed = 0
    /\ user_data = NotRun
    /\ patterns = NotRun
    /\ insights = NotRun
    /\ response = NotRun
    /\ prev_insights = NotRun
    /\ runs = <<>>

CallAnalyzeRepositoryPatterns ==
    /\ result = NotRun
    /\ result' = _analyze_repository_patterns(arg)
    /\ UNCHANGED <<github, hash_seed, user_data, patterns, insights, response,
                   prev_insights, runs, arg>>

NextRepos == CallAnalyzeRepositoryPatterns

SpecRepos == InitRepos /\ [][NextRepos]_vars

\* the stargazers_count values of the analysed list, in input order
StarsOf(repositories) == [i \in 1..Len(repositories) |-> repositories[i].stargazers_count]

\* position in the analysed list of the repository called name
IndexOf(name) == CHOOSE i \in 1..Len(arg) : arg[i].name = name

\* the average of a non-empty list is total_stars / len(repositories)
AverageOfNonEmpty ==
    (result /= NotRun /\ arg /= <<>>)
       => /\ result.average_stars.den > 0
          /\ result.average_stars.num * Len(arg)
                = SumSeq(StarsOf(arg)) * result.average_stars.den
          /\ StarsOf(arg) = <<10, 20, 30>>
                => result.average_stars.num = 20 * result.average_stars.den

\* C12 as stated: average_stars is total_stars / number of repositories for
\* a non-empty list (20 for stars 10, 20, 30) and the report of an empty
\* list has average_stars 0.
C12_AverageStarsZeroWhenEmpty ==
    /\ AverageOfNonEmpty
    /\ (result /= NotRun /\ arg = <<>>)
          => /\ "average_stars" \in DOMAIN result
             /\ result.average_stars.num = 0

\* C12, amended: average_stars is total_stars / number of repositories for
\* a non-empty list (20 for stars 10, 20, 30); the report of an empty list
\* is the empty dict, which has no average_stars at all.
C12_AverageStars ==
    /\ AverageOfNonEmpty
    /\ (result /= NotRun /\ arg = <<>>)
          => /\ result = EmptyDict
             /\ "average_stars" \notin DOMAIN result

\* the list with stars 10, 20, 30 was analysed
C12_Witness ==
    /\ result /= NotRun
    /\ StarsOf(arg) = <<10, 20, 30>>
    /\ result.average_stars = [num |-> 60, den |-> 3]

\* the empty list was analysed
C12_WitnessEmpty == result /= NotRun /\ arg = <<>> /\ result = EmptyDict

\* sort keys of the i-th entry of the two lists of the report
StarsListed(i) == result.most_starred_repos[i].stars
UpdatedListed(i) == LexKey(result.recently_updated[i].updated)

\* most_starred_repos: min(5, n) distinct repositories of the list with
\* their own stars, non-increasing, none of the omitted ones above the last
\* listed one, equal stars in input order
MostStarredRule ==
    LET top == result.most_starred_repos
        listed == {IndexOf(top[i].name) : i \in 1..Len(top)}
    IN /\ Len(top) = Min(5, Len(arg))
       /\ Cardinality(listed) = Len(top)
       /\ \A i \in 1..Len(top) : StarsListed(i) = arg[IndexOf(top[i].name)].stargazers_count
       /\ \A i \in 1..(Len(top) - 1) : StarsListed(i) >= StarsListed(i + 1)
       /\ \A j \in (1..Len(arg)) \ listed : arg[j].stargazers_count <= StarsListed(Len(top))
       /\ \A i, k \in 1..Len(top) :
             (i < k /\ StarsListed(i) = StarsListed(k))
                => IndexOf(top[i].name) < IndexOf(top[k].name)

\* recently_updated: the same rule on the updated_at strings
RecentlyUpdatedRule ==
    LET top == result.recently_updated
        listed == {IndexOf(top[i].name) : i \in 1..Len(top)}
    IN /\ Len(top) = Min(5, Len(arg))
       /\ Cardinality(listed) = Len(top)
       /\ \A i \in 1..Len(top) : top[i].updated = arg[IndexOf(top[i].name)].updated_at
       /\ \A i \in 1..(Len(top) - 1) : UpdatedListed(i) >= UpdatedListed(i + 1)
       /\ \A j \in (1..Len(arg)) \ listed : LexKey(arg[j].updated_at) <= UpdatedListed(Len(top))
       /\ \A i, k \in 1..Len(top) :
             (i < k /\ UpdatedListed(i) = UpdatedListed(k))
                => IndexOf(top[i].name) < IndexOf(top[k].name)

\* C13: for a non-empty repository list most_starred_repos and
\* recently_updated are the top min(5, n) by stars, resp. by updated_at
\* string, in non-increasing order, nothing omitted ranking above the last
\* entry, and equal keys in their input order.
C13_TopFiveStable ==
    (result /= NotRun /\ arg /= <<>>) => (MostStarredRule /\ RecentlyUpdatedRule)

\* six repositories, the cut drops one, and two listed ones have equal
\* stars and two equal updated_at
C13_Witness ==
    /\ result /= NotRun
    /\ Len(arg) = 6
    /\ Len(result.most_starred_repos) = 5
    /\ \E i \in 1..4 : StarsListed(i) = StarsListed(i + 1)
    /\ \E i \in 1..4 : UpdatedListed(i) = UpdatedListed(i + 1)
    /\ \E j \in 1..6 : arg[j].stargazers_count < StarsListed(5)

----------------------------------------------------------------------------
(* SpecCollaboration: _analyze_collaboration_patterns on event sequences   *)
(* of the three counted types and one other type, with the repo field      *)
(* naming one of two repositories, absent, without a name, or None.        *)

MaxCollabEvents == 3

CollabEvents ==
    { [type |-> "PullRequestEvent", created_at |-> Tue14, repo |-> [name |-> "octo/alpha"]],
      [type |-> "IssueCommentEvent", created_at |-> Tue14, repo |-> [name |-> "octo/beta"]],
      [type |-> "PullRequestReviewEvent", created_at |-> Wed09, repo |-> [name |-> "octo/beta"]],
      [type |-> "PushEvent", created_at |-> Wed09, repo |-> [name |-> "octo/alpha"]],
      [type |-> "WatchEvent", created_at |-> Wed09, repo |-> NoneObj],
      [type |-> "IssueCommentEvent", created_at |-> Wed09],
      [type |-> "PullRequestReviewEvent", created_at |-> Tue14, repo |-> [id |-> 7]],
      [type |-> "PullRequestEvent", created_at |-> Tue14, repo |-> NoneObj] }

InitCollaboration ==
    /\ arg \in SeqsUpTo(CollabEvents, MaxCollabEvents)
    /\ result = NotRun
    /\ github = NotRun
    /\ hash_seed = 0
    /\ user_data = NotRun
    /\ patterns = NotRun
    /\ insights = NotRun
    /\ response = NotRun
    /\ prev_insights = NotRun
    /\ runs = <<>>

CallAnalyzeCollaborationPatterns ==
    /\ result = NotRun
    /\ result' = _analyze_collaboration_patterns(arg)
    /\ UNCHANGED <<github, hash_seed, user_data, patterns, insights, response,
                   prev_insights, runs, arg>>

NextCollaboration == CallAnalyzeCollaborationPatterns

SpecCollaboration == InitCollaboration /\ [][NextCollaboration]_vars

\* positions of the events of a counted type that carry a repository name
Qualifying(events) ==
    {i \in 1..Len(events) : IsCollaboration(events[i]) /\ HasRepoName(events[i])}

\* what the claim says of a returned collaboration report
CollaborationRule ==
    LET repos == result.collaborative_repos
        names == {arg[i].repo.name : i \in Qualifying(arg)}
    IN /\ result.collaboration_frequency = Cardinality(Qualifying(arg))
       /\ result = _analyze_collaboration_patterns(SelectSeq(arg, IsCollaboration))
       /\ CounterKeys(repos) = names
       /\ \A n \in names :
             CounterCount(repos, n)
                = Cardinality({i \in Qualifying(arg) : arg[i].repo.name = n})
       /\ SumValues(repos) = result.collaboration_frequency
       /\ IF Qualifying(arg) = {} THEN result.most_collaborated_repo = None
          ELSE /\ result.most_collaborated_repo \in names
               /\ \A n \in names :
                     CounterCount(repos, n) <= CounterCount(repos, result.most_collaborated_repo)

\* C14 as stated: every event sequence has a collaboration report, whose
\* collaboration_frequency is the number of events of the three counted
\* types that carry a repository name, which events of other types do not
\* change, whose per-repository counts sum to collaboration_frequency and
\* whose most_collaborated_repo has a maximal count (None when no event
\* qualifies).
C14_CollaborationCounts ==
    result /= NotRun => (~Raised(result) /\ CollaborationRule)

\* the returned reports obey the rule; the sequences without a report are
\* the ones holding an event of a counted type whose repo is None
ReturnedCollaborationReports ==
    result /= NotRun =>
        IF \E i \in 1..Len(arg) : IsCollaboration(arg[i]) /\ Get(arg[i], "repo", EmptyDict) = NoneObj
        THEN result = Raise("AttributeError")
        ELSE ~Raised(result) /\ CollaborationRule

----------------------------------------------------------------------------
(* SpecRecommendations: _generate_recommendations on the three sub-reports *)
(* it reads, with active_days, language_diversity and                      *)
(* collaboration_frequency on both sides of 30, 3 and 10. A dataset        *)
(* without events has the empty productivity report.                       *)

MaxRecDays == 31
MaxRecDiversity == 4
MaxRecCollab == 11

RecReports ==
    { [productivity_metrics |-> pm,
       language_patterns |-> [language_diversity |-> d],
       collaboration_patterns |-> [collaboration_frequency |-> c]] :
         pm \in {EmptyDict} \cup {[active_days |-> a] : a \in 0..MaxRecDays},
         d \in 0..MaxRecDiversity,
         c \in 0..MaxRecCollab }

InitRecommendations ==
    /\ arg \in RecReports
    /\ result = NotRun
    /\ github = NotRun
    /\ hash_seed = 0
    /\ user_data = NotRun
    /\ patterns = NotRun
    /\ insights = NotRun
    /\ response = NotRun
    /\ prev_insights = NotRun
    /\ runs = <<>>

CallGenerateRecommendations ==
    /\ result = NotRun
    /\ result' = [recommendations |-> _generate_recommendations(arg)]
    /\ UNCHANGED <<github, hash_seed, user_data, patterns, insights, response,
                   prev_insights, runs, arg>>

NextRecommendations == CallGenerateRecommendations

SpecRecommendations == InitRecommendations /\ [][NextRecommendations]_vars

\* the three numbers of the analysed report
RecActiveDays == Get(arg.productivity_metrics, "active_days", 0)
RecDiversity == arg.language_patterns.language_diversity
RecCollab == arg.collaboration_patterns.collaboration_frequency

\* the recommendations of the returned list
Recommended == {result.recommendations[i] : i \in 1..Len(result.recommendations)}

\* C15: the recommendations list is never empty and ends with the
\* documentation recommendation; the consistency one is in it exactly when
\* active_days < 30, the diversification one exactly when
\* language_diversity < 3, the collaboration one exactly when
\* collaboration_frequency < 10 (so none at 30, 3 and 10), each at most
\* once and in this order.
C15_Recommendations ==
    result /= NotRun =>
        LET Wanted(rec) ==
                \/ rec = ConsistencyRec /\ RecActiveDays < 30
                \/ rec = DiversifyRec /\ RecDiversity < 3
                \/ rec = CollaborationRec /\ RecCollab < 10
                \/ rec = DocumentationRec
        IN /\ Len(result.recommendations) >= 1
           /\ result.recommendations[Len(result.recommendations)] = DocumentationRec
           /\ (ConsistencyRec \in Recommended) <=> (RecActiveDays < 30)
           /\ (DiversifyRec \in Recommended) <=> (RecDiversity < 3)
           /\ (CollaborationRec \in Recommended) <=> (RecCollab < 10)
           /\ RecActiveDays = 30 => ConsistencyRec \notin Recommended
           /\ RecDiversity = 3 => DiversifyRec \notin Recommended
           /\ RecCollab = 10 => CollaborationRec \notin Recommended
           /\ result.recommendations = SelectSeq(<<ConsistencyRec, DiversifyRec, CollaborationRec,
                                                   DocumentationRec>>, Wanted)

\* a report exactly at 30 active days and 3 languages, one collaboration
\* short of 10
C15_Witness ==
    /\ result /= NotRun
    /\ RecActiveDays = 30
    /\ RecDiversity = 3
    /\ RecCollab = 9
    /\ result.recommendations = <<CollaborationRec, DocumentationRec>>

----------------------------------------------------------------------------
(* Further claims checked under SpecCallers *)

BaseCategories ==
    {"summary", "time_insights", "activity_insights", "language_insights",
     "productivity_insights", "recommendations"}

EnhancedCategories == {"predictions", "developer_profile"}

\* C16: generate_insights returns the six base categories, plus the
\* predictions and the developer profile exactly when the caller passed the
\* dataset as user_data; the route passes none, so the insights of its
\* answers never hold predictions or a developer profile.
C16_EnhancedOnlyWithDataset ==
    /\ (result /= NotRun /\ ~Raised(result))
          => /\ BaseCategories \subseteq DOMAIN result
             /\ DOMAIN result \subseteq BaseCategories \cup EnhancedCategories
             /\ ("predictions" \in DOMAIN result) <=> (arg = github)
             /\ ("developer_profile" \in DOMAIN result) <=> (arg = github)
    /\ insights /= NotRun => DOMAIN insights = BaseCategories
    /\ (response /= NotRun /\ response.status = 200)
          => DOMAIN response.body.insights = BaseCategories

\* the route answered 200 on a dataset for which the other caller, passing
\* the dataset, got predictions and a profile
C16_Witness ==
    /\ response /= NotRun
    /\ response.status = 200
    /\ DOMAIN response.body.insights = BaseCategories
    /\ HasPredictions
    /\ "developer_profile" \in DOMAIN result
    /\ arg = github

\* the call without user_data, or with an empty one, returned the base
\* categories alone
BaseOnlyReturned ==
    /\ result /= NotRun
    /\ ~Raised(result)
    /\ arg /= github
    /\ DOMAIN result = BaseCategories

\* C17: for a non-empty event sequence the predicted event type is the type
\* reported as most_common_activity, ties for the highest count included,
\* and its confidence is that type's count over the number of events, hence
\* in (0, 1].
C17_PredictionIsMostCommon ==
    (HasPredictions /\ patterns /= NotRun /\ github.events /= <<>>)
       => LET predicted == result.predictions.likely_next_event_type
              most_common == patterns.activity_patterns.most_common_activity
              count == Cardinality({i \in 1..Len(github.events) :
                                       github.events[i].type = predicted.event_type})
          IN /\ predicted /= NoneObj
             /\ predicted.event_type = most_common[1]
             /\ predicted.confidence.num = most_common[2]
             /\ predicted.confidence.num = count
             /\ predicted.confidence.den = Len(github.events)
             /\ 0 < predicted.confidence.num
             /\ predicted.confidence.num <= predicted.confidence.den

\* two event types tie for the highest count
C17_Witness ==
    /\ HasPredictions
    /\ patterns /= NotRun
    /\ Len(patterns.activity_patterns.event_type_distribution) = 2
    /\ patterns.activity_patterns.event_type_distribution[1][2]
          = patterns.activity_patterns.event_type_distribution[2][2]
    /\ result.predictions.likely_next_event_type.event_type
          = patterns.activity_patterns.event_type_distribution[1][1]
    /\ result.predictions.likely_next_event_type.confidence = [num |-> 1, den |-> 2]

====
